---- MODULE Spec2Model ----
(***************************************************************************)
(* Model of app/tool/message_tools.py: five notifier tools, each an        *)
(* `async def execute` coroutine.  The three HTTP notifiers call the       *)
(* synchronous requests.post(..., timeout=10); the console notifier        *)
(* prints; the file notifier opens a file and writes one line.             *)
(*                                                                         *)
(* Strings are TLA+ strings, built with \o exactly as the f-strings of    *)
(* the source build them.                                                  *)
(***************************************************************************)
EXTENDS Integers, Sequences, FiniteSets, TLC

\* ------------------------------------------------------------- bounds
\* Number of notifier calls the calling framework starts on one event loop.
NumCalls == 2

Calls == 1..NumCalls

\* Most characters of its line a failed write leaves in the file.
MaxPartial == 1

\* ---------------------------------------------------- program constants
\* requests.post(..., timeout=10)
timeout == 10

\* the status code the Discord notifier takes as success
DiscordOkStatus == 204

\* the status code the Slack notifier takes as success (with body "ok")
SlackOkStatus == 200

\* ------------------------------------------------------------- inputs
HttpTools == {"send_discord_message", "send_slack_message", "send_telegram_message"}

Tools == HttpTools \cup {"send_console_message", "save_message_to_file"}

Messages == {"hello", "world"}

\* an optional argument that was not given (avatar_url=None, channel=None)
None == "<None>"

\* the field of a JSON object that is not there
Absent == "<absent>"

\* Arguments of one call: tool, message, the tool's optional argument
\* (avatar_url / channel / title) and the file notifier's append flag.
Invocations ==
    [tool : {"send_discord_message"}, message : {"hello"},
     opt : {None}, append : {FALSE}]
    \cup
    [tool : {"send_slack_message"}, message : {"hello"},
     opt : {"general"}, append : {FALSE}]
    \cup
    [tool : {"send_telegram_message"}, message : {"hello"},
     opt : {None}, append : {FALSE}]
    \cup
    [tool : {"send_console_message"}, message : {"hello"},
     opt : {"OpenManus Message"}, append : {FALSE}]
    \cup
    [tool : {"save_message_to_file"}, message : Messages,
     opt : {None}, append : BOOLEAN]

NoCall == [tool |-> "none", message |-> "", opt |-> None, append |-> FALSE]

\* ------------------------------------------------- the remote endpoint
StatusCodes == {200, 204, 404}

\* response.json(): a JSON object with its "ok" and "description" fields,
\* a JSON value that is not an object, or a body that is not JSON.
\* "ok" holds a JSON value: true, false, the number 1, or is absent.
OkValues == {Absent, "true", "false", "1"}

JsonObjects == [kind : {"object"}, ok : OkValues, description : {Absent, "Bad Request"}]

NoJson == [kind |-> "invalid", ok |-> Absent, description |-> Absent]

JsonArray == [kind |-> "array", ok |-> Absent, description |-> Absent]

Responses(tool) ==
    CASE tool = "send_discord_message" ->
           [status : StatusCodes, text : {""}, json : {NoJson}]
      [] tool = "send_slack_message" ->
           [status : {200, 404}, text : {"ok", "error"}, json : {NoJson}]
      [] tool = "send_telegram_message" ->
           [status : {200, 404}, text : {""}, json : JsonObjects \cup {NoJson, JsonArray}]
      [] OTHER -> {}

NoResp == [status |-> 0, text |-> "", json |-> NoJson]

\* ---------------------------------------------------------- exceptions
\* class "RequestException": requests.exceptions.RequestException and its
\* subclasses; class "Exception": any other subclass of Exception.
NoExc == [class |-> "none", text |-> ""]

ConnectionRefused == [class |-> "RequestException", text |-> "Connection refused"]

ReadTimeout == [class |-> "RequestException", text |-> "Read timed out. (read timeout=10)"]

Unanticipated == [class |-> "Exception", text |-> "boom"]

\* what requests.post can raise other than the timeout
PostErrors == {ConnectionRefused, Unanticipated}

\* response.json() on a body that is not JSON: requests >= 2.27 raises
\* requests.exceptions.JSONDecodeError (a RequestException), older versions a
\* ValueError.
JsonDecodeErrors ==
    {[class |-> "RequestException", text |-> "Expecting value"],
     [class |-> "Exception", text |-> "Expecting value"]}

AttributeError == [class |-> "Exception", text |-> "'list' object has no attribute 'get'"]

\* open() and write() failures
OpenErrors == {[class |-> "Exception", text |-> "Permission denied"]}

WriteErrors == {[class |-> "Exception", text |-> "No space left on device"]}

\* print() failure (closed or unencodable standard output)
PrintErrors == {[class |-> "Exception", text |-> "I/O operation on closed file"]}

\* ---------------------------------------------------------------- state
VARIABLES
    pc,          \* position of each call: idle, ready, posting, opened, done, raised
    call,        \* arguments of each call
    running,     \* the call that holds the event loop's thread, 0 when none
    elapsed,     \* seconds the outstanding request has waited
    sent,        \* per call: the requests handed to requests.post
    resp,        \* per call: the response requests.post returned
    fault,       \* per call: the exception raised inside the operation
    result,      \* per call: the returned string
    logged,      \* per call: level of the log line written
    file,        \* content of the target file
    file0,       \* content of the target file before any call
    handles,     \* open file handles
    fileBefore,  \* per call: file content when the call began to run
    fileAfter,   \* per call: file content when the call returned
    saves,       \* the successful file calls, in order
    failedSave   \* some file call has failed

vars == <<pc, call, running, elapsed, sent, resp, fault, result, logged,
          file, file0, handles, fileBefore, fileAfter, saves, failedSave>>

fileVars == <<file, handles, fileBefore, fileAfter, saves, failedSave>>

httpVars == <<sent, resp, elapsed>>

\* ------------------------------------------------------- pure functions
Return(level, text) == [kind |-> "return", level |-> level, text |-> text, exc |-> NoExc]

Raise(exc) == [kind |-> "raise", level |-> "", text |-> "", exc |-> exc]

WebhookUrl == "https://hooks.example/w"

BotToken == "123:abc"

ChatId == "@chat"

DefaultUsername == "OpenManus Bot"

\* The JSON payload and URL each notifier hands to requests.post.
DiscordRequest(a) ==
    [url |-> WebhookUrl,
     json |-> IF a.opt # None
              THEN [content |-> a.message, username |-> DefaultUsername, avatar_url |-> a.opt]
              ELSE [content |-> a.message, username |-> DefaultUsername]]

SlackRequest(a) ==
    [url |-> WebhookUrl,
     json |-> IF a.opt # None
              THEN [text |-> a.message, username |-> DefaultUsername, channel |-> "#" \o a.opt]
              ELSE [text |-> a.message, username |-> DefaultUsername]]

TelegramRequest(a) ==
    [url |-> "https://api.telegram.org/bot" \o BotToken \o "/sendMessage",
     json |-> [chat_id |-> ChatId, text |-> a.message, parse_mode |-> "HTML"]]

Request(a) ==
    CASE a.tool = "send_discord_message" -> DiscordRequest(a)
      [] a.tool = "send_slack_message" -> SlackRequest(a)
      [] a.tool = "send_telegram_message" -> TelegramRequest(a)

\* Python truthiness of a JSON value (None when the key is absent).
Truthy(v) == v \in {"true", "1"}

\* (variant: both 200 and 204 taken as success)
DiscordSuccessAny2xx(r) == r.status \in {200, 204}

\* response.status_code == 204
DiscordSuccess(r) == r.status = DiscordOkStatus

\* (variant: the body is not compared)
SlackSuccessStatusOnly(r) == r.status = SlackOkStatus

\* response.status_code == 200 and response.text == "ok"
SlackSuccess(r) == r.status = SlackOkStatus /\ r.text = "ok"

\* (variant: the HTTP status decides instead of the "ok" field)
TelegramSuccessByStatus(r) == r.status = 200

\* result.get("ok")
TelegramSuccess(r) == Truthy(r.json.ok)

\* result.get('description', 'Unknown error')
Description(j) == IF j.description = Absent THEN "Unknown error" ELSE j.description

\* The statements of the try block after requests.post has returned r:
\* the set of outcomes (one, except where the library version decides).
DiscordBody(r) ==
    IF DiscordSuccess(r)
    THEN {Return("INFO", "Discord message sent successfully!")}
    ELSE {Return("ERROR", "Error: " \o "Failed to send Discord message. Status: "
                          \o ToString(r.status))}

SlackBody(r) ==
    IF SlackSuccess(r)
    THEN {Return("INFO", "Slack message sent successfully!")}
    ELSE {Return("ERROR", "Error: " \o "Failed to send Slack message. Status: "
                          \o ToString(r.status) \o ", Response: " \o r.text)}

TelegramBody(r) ==
    CASE r.json.kind = "invalid" -> {Raise(e) : e \in JsonDecodeErrors}
      [] r.json.kind = "array" -> {Raise(AttributeError)}
      [] r.json.kind = "object" ->
           IF TelegramSuccess(r)
           THEN {Return("INFO", "Telegram message sent successfully!")}
           ELSE {Return("ERROR", "Error: " \o "Failed to send Telegram message: "
                                 \o Description(r.json))}

TryBody(tool, r) ==
    CASE tool = "send_discord_message" -> DiscordBody(r)
      [] tool = "send_slack_message" -> SlackBody(r)
      [] tool = "send_telegram_message" -> TelegramBody(r)

Label(tool) ==
    CASE tool = "send_discord_message" -> "Discord"
      [] tool = "send_slack_message" -> "Slack"
      [] tool = "send_telegram_message" -> "Telegram"
      [] OTHER -> ""

\* Which exceptions the operation's except clauses catch: the HTTP notifiers
\* and the file notifier end in `except Exception`; the console notifier has
\* no try statement.
\* (variant: the `except Exception` clauses are missing)
CatchesRequestOnly(tool, exc) ==
    tool \in HttpTools /\ exc.class = "RequestException"

Catches(tool, exc) == tool \in HttpTools \cup {"save_message_to_file"}

\* The except clauses: the outcome of the operation when exc is raised in it.
Except(tool, exc) ==
    IF ~Catches(tool, exc) THEN Raise(exc)
    ELSE IF tool = "save_message_to_file"
         THEN Return("ERROR", "Error: " \o "Error saving message to file: " \o exc.text)
    ELSE IF exc.class = "RequestException"
         THEN Return("ERROR", "Error: " \o "Error sending " \o Label(tool)
                              \o " message: " \o exc.text)
    ELSE Return("ERROR", "Error: " \o "Unexpected error: " \o exc.text)

\* An outcome of the try block, passed through the except clauses.
Resolve(tool, o) == IF o.kind = "raise" THEN Except(tool, o.exc) ELSE o

\* (variant: the file is always opened in mode "a")
OpenedContentKept(content, append) == content

\* open(filename, mode): "w" truncates, "a" keeps the content.
OpenedContent(content, append) == IF append THEN content ELSE ""

\* f.write(f"{message}\n")
Written(content, message) == content \o message \o "\n"

Filename == "openmanus_message.txt"

\* ------------------------------------------------------------ the state
Init ==
    /\ pc = [c \in Calls |-> "idle"]
    /\ call = [c \in Calls |-> NoCall]
    /\ running = 0
    /\ elapsed = 0
    /\ sent = [c \in Calls |-> <<>>]
    /\ resp = [c \in Calls |-> NoResp]
    /\ fault = [c \in Calls |-> NoExc]
    /\ result = [c \in Calls |-> ""]
    /\ logged = [c \in Calls |-> ""]
    /\ file0 \in {"", "old\n"}
    /\ file = file0
    /\ handles = 0
    /\ fileBefore = [c \in Calls |-> ""]
    /\ fileAfter = [c \in Calls |-> ""]
    /\ saves = <<>>
    /\ failedSave = FALSE

\* (variant: a failure verdict sends the call back to run again)
NextPcRetry(o) ==
    IF o.kind = "raise" THEN "raised" ELSE IF o.level = "ERROR" THEN "ready" ELSE "done"

\* Where an outcome leaves the call: every return statement ends it, and an
\* exception no clause caught leaves execute.
NextPc(o) == IF o.kind = "return" THEN "done" ELSE "raised"

\* The operation ends with outcome o: it returns o.text (after its log line)
\* or the exception leaves execute; the coroutine gives the thread back.
Finish(c, o) ==
    /\ pc' = [pc EXCEPT ![c] = NextPc(o)]
    /\ result' = [result EXCEPT ![c] = o.text]
    /\ logged' = [logged EXCEPT ![c] = o.level]
    /\ running' = 0

\* (variant: requests.post is called without a timeout)
TimedOutNever(e) == FALSE

\* requests.post has waited the whole timeout.

TimedOut(e) == e >= timeout

\* -------------------------------------------------------------- actions
\* The calling framework creates the coroutine of one notifier call.
Invoke(c) ==
    /\ pc[c] = "idle"
    /\ \E a \in Invocations : call' = [call EXCEPT ![c] = a]
    /\ pc' = [pc EXCEPT ![c] = "ready"]
    /\ UNCHANGED <<running, fault, result, logged, file0>>
    /\ UNCHANGED httpVars
    /\ UNCHANGED fileVars

\* The event loop runs the coroutine of an HTTP notifier: it builds the
\* payload and calls requests.post, which blocks the thread (execute holds
\* no await).
Post(c) ==
    /\ pc[c] = "ready"
    /\ running = 0
    /\ call[c].tool \in HttpTools
    /\ running' = c
    /\ pc' = [pc EXCEPT ![c] = "posting"]
    /\ sent' = [sent EXCEPT ![c] = Append(@, Request(call[c]))]
    /\ elapsed' = 0
    /\ UNCHANGED <<call, resp, fault, result, logged, file0>>
    /\ UNCHANGED fileVars

\* The endpoint stays silent until the timeout of requests.post has passed.
Tick ==
    /\ running \in Calls
    /\ pc[running] = "posting"
    /\ elapsed < timeout
    /\ elapsed' = timeout
    /\ UNCHANGED <<pc, call, running, sent, resp, fault, result, logged, file0>>
    /\ UNCHANGED fileVars

\* The endpoint answers in time: the rest of the try block runs.
Respond(c) ==
    /\ pc[c] = "posting"
    /\ ~TimedOut(elapsed)
    /\ \E r \in Responses(call[c].tool) :
         /\ resp' = [resp EXCEPT ![c] = r]
         /\ \E o \in TryBody(call[c].tool, r) :
              /\ fault' = [fault EXCEPT ![c] = o.exc]
              /\ Finish(c, Resolve(call[c].tool, o))
    /\ elapsed' = 0
    /\ UNCHANGED <<call, sent, file0>>
    /\ UNCHANGED fileVars

\* requests.post raises (connection refused, an unanticipated error).
PostRaises(c) ==
    /\ pc[c] = "posting"
    /\ ~TimedOut(elapsed)
    /\ \E e \in PostErrors :
         /\ fault' = [fault EXCEPT ![c] = e]
         /\ Finish(c, Except(call[c].tool, e))
    /\ elapsed' = 0
    /\ UNCHANGED <<call, sent, resp, file0>>
    /\ UNCHANGED fileVars

\* The endpoint has not answered for `timeout` seconds: requests.post raises
\* requests.exceptions.Timeout.
TimeoutExpires(c) ==
    /\ pc[c] = "posting"
    /\ TimedOut(elapsed)
    /\ fault' = [fault EXCEPT ![c] = ReadTimeout]
    /\ Finish(c, Except(call[c].tool, ReadTimeout))
    /\ elapsed' = 0
    /\ UNCHANGED <<call, sent, resp, file0>>
    /\ UNCHANGED fileVars

\* The console notifier: five print statements, the log line, the return;
\* or one of the print statements raises.
Console(c) ==
    /\ pc[c] = "ready"
    /\ running = 0
    /\ call[c].tool = "send_console_message"
    /\ \/ /\ fault' = fault
          /\ Finish(c, Return("INFO", "Message displayed in console: " \o call[c].opt))
       \/ \E e \in PrintErrors :
            /\ fault' = [fault EXCEPT ![c] = e]
            /\ Finish(c, Except(call[c].tool, e))
    /\ UNCHANGED <<call, file0>>
    /\ UNCHANGED httpVars
    /\ UNCHANGED fileVars

\* The file notifier runs up to open(filename, mode): the file is opened
\* (and truncated in mode "w"), or open raises.
Open(c) ==
    /\ pc[c] = "ready"
    /\ running = 0
    /\ call[c].tool = "save_message_to_file"
    /\ fileBefore' = [fileBefore EXCEPT ![c] = file]
    /\ \/ /\ file' = OpenedContent(file, call[c].append)
          /\ handles' = handles + 1
          /\ running' = c
          /\ pc' = [pc EXCEPT ![c] = "opened"]
          /\ UNCHANGED <<fault, result, logged, fileAfter, failedSave>>
       \/ \E e \in OpenErrors :
            /\ fault' = [fault EXCEPT ![c] = e]
            /\ Finish(c, Except(call[c].tool, e))
            /\ fileAfter' = [fileAfter EXCEPT ![c] = file]
            /\ failedSave' = TRUE
            /\ UNCHANGED <<file, handles>>
    /\ UNCHANGED <<call, file0, saves>>
    /\ UNCHANGED httpVars

\* f.write and the end of the with block: the line is written and the handle
\* closed, or the write (or the flush at close) raises after none or some of
\* the line's leading characters reached the file; the handle is closed
\* either way.
Write(c) ==
    /\ pc[c] = "opened"
    /\ handles' = handles - 1
    /\ \/ /\ file' = Written(file, call[c].message)
          /\ saves' = Append(saves, [append |-> call[c].append, message |-> call[c].message])
          /\ fault' = fault
          /\ Finish(c, Return("INFO", "Message saved to file: " \o Filename))
          /\ UNCHANGED failedSave
       \/ \E e \in WriteErrors, k \in 0..MaxPartial :
            /\ file' = file \o SubSeq(call[c].message, 1, k)
            /\ fault' = [fault EXCEPT ![c] = e]
            /\ Finish(c, Except(call[c].tool, e))
            /\ failedSave' = TRUE
            /\ UNCHANGED saves
    /\ fileAfter' = [fileAfter EXCEPT ![c] = file']
    /\ UNCHANGED <<call, file0, fileBefore>>
    /\ UNCHANGED httpVars

\* The steps of call c that the event loop can take for it.
Step(c) == Post(c) \/ Console(c) \/ Open(c)

Next ==
    \/ \E c \in Calls : Invoke(c)
    \/ \E c \in Calls : Post(c)
    \/ Tick
    \/ \E c \in Calls : Respond(c)
    \/ \E c \in Calls : PostRaises(c)
    \/ \E c \in Calls : TimeoutExpires(c)
    \/ \E c \in Calls : Console(c)
    \/ \E c \in Calls : Open(c)
    \/ \E c \in Calls : Write(c)

Spec == Init /\ [][Next]_vars

\* The clock advances and the socket timeout fires.
FairSpec ==
    /\ Spec
    /\ WF_vars(Tick)
    /\ \A c \in Calls : WF_vars(TimeoutExpires(c))

\* ------------------------------------------------------------- claims
IsError(s) == Len(s) >= 6 /\ SubSeq(s, 1, 6) = "Error:"

Contains(s, t) == \E i \in 1..(Len(s) - Len(t) + 1) : SubSeq(s, i, i + Len(t) - 1) = t

SuccessPhrase(a) ==
    CASE a.tool = "send_discord_message" -> "Discord message sent successfully!"
      [] a.tool = "send_slack_message" -> "Slack message sent successfully!"
      [] a.tool = "send_telegram_message" -> "Telegram message sent successfully!"
      [] a.tool = "send_console_message" -> "Message displayed in console: " \o a.opt
      [] a.tool = "save_message_to_file" -> "Message saved to file: " \o Filename
      [] OTHER -> ""

Ended(c) == pc[c] \in {"done", "raised"}

\* C1: a Discord call whose POST completed with a response has returned; its
\* result is the success string exactly when the status is 204, and for any
\* other status it begins with "Error:" and contains the status code.
DiscordStatusVerdict ==
    \A c \in Calls :
        (call[c].tool = "send_discord_message" /\ resp[c] # NoResp) =>
            /\ pc[c] = "done"
            /\ (result[c] = SuccessPhrase(call[c])) <=> (resp[c].status = 204)
            /\ resp[c].status # 204 =>
                   /\ IsError(result[c])
                   /\ Contains(result[c], ToString(resp[c].status))

DiscordStatusWitness ==
    /\ \E c \in Calls :
          /\ call[c].tool = "send_discord_message"
          /\ resp[c].status = 200
          /\ result[c] = "Error: Failed to send Discord message. Status: 200"
    /\ \E c \in Calls :
          /\ call[c].tool = "send_discord_message"
          /\ resp[c].status = 204
          /\ result[c] = "Discord message sent successfully!"

\* C2: a Slack call whose POST completed with a response has returned; its
\* result is the success string exactly when the status is 200 and the body
\* is "ok", and otherwise it begins with "Error:" and contains the status
\* code and the raw body.
SlackStatusAndBodyVerdict ==
    \A c \in Calls :
        (call[c].tool = "send_slack_message" /\ resp[c] # NoResp) =>
            /\ pc[c] = "done"
            /\ (result[c] = SuccessPhrase(call[c]))
                   <=> (resp[c].status = 200 /\ resp[c].text = "ok")
            /\ ~(resp[c].status = 200 /\ resp[c].text = "ok") =>
                   /\ IsError(result[c])
                   /\ Contains(result[c], ToString(resp[c].status))
                   /\ Contains(result[c], resp[c].text)

SlackStatusAndBodyWitness ==
    /\ \E c \in Calls :
          /\ call[c].tool = "send_slack_message"
          /\ resp[c].status = 200 /\ resp[c].text = "error"
          /\ result[c] = "Error: Failed to send Slack message. Status: 200, Response: error"
    /\ \E c \in Calls :
          /\ call[c].tool = "send_slack_message"
          /\ resp[c].status = 404 /\ resp[c].text = "ok"
          /\ IsError(result[c])

NothingPropagates ==
    \A c \in Calls :
        call[c].tool \in HttpTools \cup {"save_message_to_file"} =>
            /\ pc[c] # "raised"
            /\ pc[c] = "done" =>
                   \/ result[c] = SuccessPhrase(call[c])
                   \/ IsError(result[c])

NothingPropagatesWitness ==
    /\ \E c \in Calls :
          /\ call[c].tool = "send_telegram_message"
          /\ fault[c] = AttributeError
          /\ pc[c] = "done"
          /\ result[c] = "Error: Unexpected error: 'list' object has no attribute 'get'"
    /\ \E c \in Calls :
          /\ call[c].tool = "save_message_to_file"
          /\ fault[c] \in WriteErrors
          /\ pc[c] = "done"
          /\ IsError(result[c])

\* The index of the most recent call with append=false, 0 when there is none.
LastOverwrite(s) ==
    IF \E i \in 1..Len(s) : ~s[i].append
    THEN CHOOSE i \in 1..Len(s) :
             ~s[i].append /\ \A j \in (i + 1)..Len(s) : s[j].append
    ELSE 0

RECURSIVE LinesFrom(_, _)
\* message+"\n" of the calls i, i+1, ... of s, concatenated in call order.
LinesFrom(s, i) ==
    IF i > Len(s) THEN "" ELSE s[i].message \o "\n" \o LinesFrom(s, i + 1)

ExpectedContent(prior, s) ==
    IF LastOverwrite(s) = 0
    THEN prior \o LinesFrom(s, 1)
    ELSE LinesFrom(s, LastOverwrite(s))

\* C5: between file calls, when every file call so far succeeded, the file
\* holds message+"\n" of the most recent append=false call and of every
\* append=true call after it, in call order (preceded by the prior content
\* when no append=false call occurred).
FileContentIsConcatenation ==
    (~failedSave /\ handles = 0) => file = ExpectedContent(file0, saves)

FileContentWitness ==
    /\ file0 = "old\n"
    /\ ~failedSave
    /\ saves = <<[append |-> FALSE, message |-> "hello"],
                 [append |-> TRUE, message |-> "world"]>>
    /\ file = "hello\nworld\n"
    /\ \A c \in Calls : pc[c] = "done"

\* C6: the console notifier never raises and returns the display-success
\* string with its title.
ConsoleAlwaysSucceeds ==
    \A c \in Calls :
        call[c].tool = "send_console_message" =>
            /\ pc[c] # "raised"
            /\ pc[c] = "done" => result[c] = "Message displayed in console: " \o call[c].opt

\* C7: a call whose request is outstanding eventually returns, and when the
\* timeout expired what it returns begins with "Error:".
EventuallyReturns ==
    \A c \in Calls :
        (pc[c] = "posting") ~>
            (pc[c] = "done" /\ (fault[c] = ReadTimeout => IsError(result[c])))

EventuallyReturnsWitness ==
    \E c \in Calls :
        /\ call[c].tool \in HttpTools
        /\ pc[c] = "done"
        /\ fault[c] = ReadTimeout
        /\ result[c] = "Error: Error sending " \o Label(call[c].tool)
                       \o " message: Read timed out. (read timeout=10)"

\* C8: a call that waits for its HTTP response does not keep another started
\* call from taking its next step.
WaitingCallBlocksNoOther ==
    \A c, d \in Calls :
        (c # d /\ pc[c] = "posting" /\ pc[d] = "ready") => ENABLED Step(d)

\* While a request is outstanding no other call issues a request or returns.
OutstandingRequestExcludesProgress ==
    [][\A c, d \in Calls :
          (c # d /\ pc[c] = "posting") => (pc'[d] = pc[d] \/ pc[d] = "idle")]_vars

\* C9: an HTTP notifier call hands exactly one request to requests.post
\* before it returns, and never more than one.
ExactlyOnePost ==
    \A c \in Calls :
        call[c].tool \in HttpTools =>
            /\ Len(sent[c]) <= 1
            /\ Ended(c) => Len(sent[c]) = 1

ExactlyOnePostWitness ==
    \E c \in Calls :
        /\ call[c].tool \in HttpTools
        /\ pc[c] = "done"
        /\ fault[c] = ConnectionRefused
        /\ IsError(result[c])
        /\ Len(sent[c]) = 1

\* C10: a file call that returned a string beginning with "Error:" carries
\* the error text, has released its handle and has left the file's content
\* as it was before the call.
FileErrorLeavesFileUntouched ==
    \A c \in Calls :
        (call[c].tool = "save_message_to_file" /\ pc[c] = "done" /\ IsError(result[c])) =>
            /\ Contains(result[c], fault[c].text)
            /\ running = 0 => handles = 0
            /\ fileAfter[c] = fileBefore[c]

====
